---- MODULE Spec2Model ----
(***************************************************************************)
(* Telegram-IMDbot: the alert store (utils/db.py), the alert engine        *)
(* (utils/movie.py: enable, disable, notify) and the adapters of imdbot.py *)
(* that drive them (chosen_result, enable_alert, disable_alert,            *)
(* notify_users).                                                          *)
(*                                                                         *)
(* Days are integers; a stored release date is a day (the code stores      *)
(* midnight of that day).  The IMDb gateway is the environment: every      *)
(* fetch answers with a gateway fault or with data chosen from a bounded   *)
(* set of replies.  A date string of the provider is a fragment            *)
(* [form, date]: its textual form and the calendar day it spells.          *)
(***************************************************************************)
EXTENDS Integers, Sequences, FiniteSets, TLC

\* ------------------------------------------------------------- bounds
\* last day the clock reaches
MaxDay == 1
\* rows the alert table holds at most
MaxRows == 2
\* episodes of the series known to the provider, numbered 1..MaxEpisode
MaxEpisode == 2

\* ---------------------------------------------------------- constants
\* timedelta(days=7): the placeholder re-check distance
RecheckDays == 7
\* title_episode_id of a movie alert (None, stored as NULL)
NoEpisode == 0

Users == {"u1", "u2"}
\* the users whose events arrive in this run; the other is known only by
\* the alert an earlier run left in the table
Callers == {"u1"}
MovieTitles == {"tm"}
SeriesTitles == {"ts"}
Titles == MovieTitles \cup SeriesTitles
NoTitle == "none"
\* no result shown yet on the user's message
NoResult == ""
Episodes == 1..MaxEpisode

\* the status strings of the two decorators and of the store
UnexpectedError == "Unexpected error occured."
DatabaseError == "Internal database error occured."
AlertEnabled == "Alert enabled."
AlertDisabled == "Alert disabled."

\* a row of query_released: <<user_id, title_id, title_episode_id>>
Rows == Users \X Titles \X (0..MaxEpisode)

VARIABLES
  store,      \* table imdb_alerts, in rowid order
  day,        \* the current day
  ticked,     \* the daily job has fired today
  chosen,     \* context.user_data[user_id]
  pc,         \* the job: "idle", "loop" (in notify), "send" (in notify_users), "done"
  today,      \* notify's local today
  rows,       \* notify's due rows not yet processed
  alerts,     \* notify's local alerts
  results,    \* notify_users' results not yet sent
  failed,     \* notify returned the error string instead of a list
  button,     \* the label imdb_url_button put on the caller's message: the result
  announced,  \* history: the rows notify has returned a notification for
  pending     \* history: rows whose last processing on an earlier tick faulted

vars == <<store, day, ticked, chosen, pc, today, rows, alerts, results, failed,
          button, announced, pending>>

\* ------------------------------------------------------ the alert store
Record(u, t, e, d) == [user |-> u, title |-> t, episode |-> e, release |-> d]

Matches(r, u, t) == r.user = u /\ r.title = t

\* INSERT INTO imdb_alerts VALUES(...): no uniqueness constraint on the table
Insert(s, r) == Append(s, r)

\* a variant of the update that writes the row when none matches (an upsert)
UpdateOrInsert(s, e, d, u, t) ==
  IF \E i \in DOMAIN s : Matches(s[i], u, t)
  THEN [i \in DOMAIN s |->
          IF Matches(s[i], u, t) THEN [s[i] EXCEPT !.episode = e, !.release = d]
          ELSE s[i]]
  ELSE Append(s, [user |-> u, title |-> t, episode |-> e, release |-> d])

\* a variant of the update that changes one matching row only
UpdateFirst(s, e, d, u, t) ==
  [i \in DOMAIN s |->
     IF Matches(s[i], u, t) /\ \A j \in 1..(i - 1) : ~Matches(s[j], u, t)
     THEN [s[i] EXCEPT !.episode = e, !.release = d]
     ELSE s[i]]

\* UPDATE ... SET title_episode_id, title_release WHERE user_id AND title_id
Update(s, e, d, u, t) ==
  [i \in DOMAIN s |->
     IF Matches(s[i], u, t) THEN [s[i] EXCEPT !.episode = e, !.release = d]
     ELSE s[i]]

KeepOther(s, u, t) == SelectSeq(s, LAMBDA r : ~Matches(r, u, t))

\* a variant of the delete that removes one matching row only (DELETE ...
\* LIMIT 1)
DeleteFirst(s, u, t) ==
  IF \E i \in DOMAIN s : Matches(s[i], u, t)
  THEN LET k == CHOOSE i \in DOMAIN s :
                  /\ Matches(s[i], u, t)
                  /\ \A j \in 1..(i - 1) : ~Matches(s[j], u, t)
       IN  SubSeq(s, 1, k - 1) \o SubSeq(s, k + 1, Len(s))
  ELSE s

\* DELETE FROM imdb_alerts WHERE user_id AND title_id
Delete(s, u, t) == KeepOther(s, u, t)

RowOf(r) == <<r.user, r.title, r.episode>>

DueOn(r, d) == r.release = d

\* SELECT user_id, title_id, title_episode_id WHERE title_release = today
QueryReleased(s, d) ==
  LET due == SelectSeq(s, LAMBDA r : DueOn(r, d))
  IN  [i \in DOMAIN due |-> RowOf(due[i])]

\* SELECT title_name WHERE user_id AND title_id; fetchone()
QueryUserAlert(s, u, t) ==
  LET hit == SelectSeq(s, LAMBDA r : Matches(r, u, t))
  IN  IF hit = <<>> THEN <<>> ELSE <<Head(hit)>>

CountKey(s, u, t) == Len(SelectSeq(s, LAMBDA r : Matches(r, u, t)))

\* ------------------------------------------------------ the date resolver
\* A date string of the provider.  form: "none" (field absent or empty),
\* "tba" (text that is no date), "long" ("15 March 2024"), "long4"
\* ("15 June 2024", a four-letter month), "short" ("12 Jun 2024"), "dot"
\* ("12 Jun. 2024"), "comma" ("12 Jun, 2024"), "trail" ("12 Jun 2024 (USA)").
DatedForms == {"long", "long4", "short", "dot", "comma", "trail"}

Fragment(f, d) == [form |-> f, date |-> d]

NoDate == Fragment("none", 0)

Fragments(dates) ==
  {NoDate, Fragment("tba", 0)} \cup {Fragment(f, d) : f \in DatedForms, d \in dates}

\* truthiness of the string
Present(f) == f.form # "none"

\* match(r'\d{1,2}\s\w{3,9}\s\d{4}', s): a prefix match
MatchMovieRegex(f) == f.form \in {"long", "long4", "short", "trail"}

\* match(r'\d{1,2}\s\w{3}.{0,1}\s\d{4}', s): a prefix match
MatchEpisodeRegex(f) == f.form \in {"long4", "short", "dot", "comma", "trail"}

\* s.replace(',', '')
StripComma(f) == IF f.form = "comma" THEN Fragment("short", f.date) ELSE f

\* s.replace('.', '')
StripDot(f) == IF f.form = "dot" THEN Fragment("short", f.date) ELSE f

ParseFault == [ok |-> FALSE, date |-> 0]

Parsed(d) == [ok |-> TRUE, date |-> d]

\* datetime.strptime(s, '%d %b %Y'): ValueError unless the whole string is
\* day, abbreviated month, year
StrptimeAbbrev(f) == IF f.form = "short" THEN Parsed(f.date) ELSE ParseFault

\* datetime.strptime(s, '%d %B %Y')
StrptimeFull(f) ==
  IF f.form \in {"long", "long4"} THEN Parsed(f.date) ELSE ParseFault

\* notify: current_episode['original air date'].replace(',', '') and strptime;
\* a missing key raises as an unparseable string does
CurrentRelease(f) ==
  IF Present(f) THEN StrptimeAbbrev(StripComma(f)) ELSE ParseFault

\* ---------------------------------------------------------- the gateway
GatewayFault == [fault |-> TRUE, air |-> NoDate, next |-> NoEpisode]

EpisodeData(f, n) == [fault |-> FALSE, air |-> f, next |-> n]

\* the 'next episode' link of episode e: absent, or the id of its successor
NextLinks(e) == {NoEpisode} \cup {n \in Episodes : n = e + 1}

\* the days a reply fetched on day d may spell
ReplyDates(d) == {x \in {d - 1, d, d + 1} : x >= 0}

\* get_episode(e) on day d
EpisodeReplies(e, d) ==
  {GatewayFault} \cup
  {EpisodeData(f, n) : f \in Fragments(ReplyDates(d)), n \in NextLinks(e)}

\* get_movie(title_id) in notify: only its success matters
MovieReplies == {GatewayFault, EpisodeData(NoDate, NoEpisode)}

\* ------------------------------------------------------------- messages
Alert(u, k, t, e) == [user |-> u, kind |-> k, title |-> t, episode |-> e]

AlertRow(a) == <<a.user, a.title, a.episode>>

\* ------------------------------------------- the store's fault boundary
\* db._catch_and_log: a sqlite3.Error leaves the table as it was and the
\* call returns the error string.  ok = FALSE is such a fault.
DbInsert(s, r, ok) == IF ok THEN Insert(s, r) ELSE s

DbUpdate(s, e, d, u, t, ok) == IF ok THEN Update(s, e, d, u, t) ELSE s

DbDelete(s, u, t, ok) == IF ok THEN Delete(s, u, t) ELSE s

\* a variant of the insert's status that reports success also after a fault
InsertStatusAlways(ok) == AlertEnabled

InsertStatus(ok) == IF ok THEN AlertEnabled ELSE DatabaseError

DeleteStatus(ok) == IF ok THEN AlertDisabled ELSE DatabaseError

\* --------------------------------------------- the engine: subscribe path
\* now = [day, tod]: tod 0 is midnight exactly, tod 1 any later moment.
\* A stored date is midnight of its day.
Now(d, tod) == [day |-> d, tod |-> tod]

\* release_date > datetime.now()
After(d, now) == d > now.day

\* release_date < datetime.now()
Before(d, now) == d < now.day \/ (d = now.day /\ now.tod > 0)

NoInsert(status) ==
  [insert |-> FALSE, status |-> status, episode |-> NoEpisode, release |-> 0]

DoInsert(e, d) ==
  [insert |-> TRUE, status |-> AlertEnabled, episode |-> e, release |-> d]

\* the release-date list: entries [country, notes, date]
Entry(c, n, f) == [country |-> c, notes |-> n, date |-> f]

ReleaseInfo(list) == [fault |-> FALSE, list |-> list]

ReleaseFault == [fault |-> TRUE, list |-> <<>>]

UsaDates(list) ==
  LET usa == SelectSeq(list, LAMBDA i : i.country = "USA" /\ ~i.notes)
  IN  [k \in DOMAIN usa |-> usa[k].date]

\* Alert._get_movie_release_date, up to the insert it decides on
MovieDecision(now, info) ==
  IF info.fault THEN NoInsert(UnexpectedError)
  ELSE IF info.list = <<>> THEN NoInsert("No release date found")
  ELSE LET usa == UsaDates(info.list) IN
       IF usa # <<>> /\ MatchMovieRegex(usa[1])
       THEN LET p == StrptimeFull(usa[1]) IN
            IF ~p.ok THEN NoInsert(UnexpectedError)
            ELSE IF After(p.date, now) THEN DoInsert(NoEpisode, p.date)
            ELSE NoInsert("Released on")
       ELSE NoInsert("Unable to find USA release date")

\* the episode map: map (the title has one), season (the air dates of the
\* first season's episodes, episode k of the season having id k)
SeasonInfo(m, season) == [fault |-> FALSE, map |-> m, season |-> season]

SeasonFault == [fault |-> TRUE, map |-> FALSE, season |-> <<>>]

\* the loop of Alert._get_episode_release_date from episode k on; msg is
\* the message variable, "unbound" before its first assignment
RECURSIVE ScanSeason(_, _, _, _)
ScanSeason(now, season, k, msg) ==
  IF k > Len(season)
  THEN IF msg = "unbound" THEN NoInsert(UnexpectedError) ELSE NoInsert(msg)
  ELSE LET f == season[k] IN
       IF Present(f) /\ MatchEpisodeRegex(f)
       THEN LET p == StrptimeAbbrev(StripDot(f)) IN
            IF ~p.ok THEN NoInsert(UnexpectedError)
            ELSE IF Before(p.date, now)
                 THEN IF k = Len(season) THEN NoInsert("Season finale aired")
                      ELSE ScanSeason(now, season, k + 1, msg)
                 ELSE DoInsert(k, p.date)
       ELSE ScanSeason(now, season, k + 1, "Unable to get episode release date")

\* a variant of the scan that looks at the season's first episode only
EpisodeDecisionFirst(now, info) ==
  IF info.fault THEN NoInsert(UnexpectedError)
  ELSE IF ~info.map THEN NoInsert("Unable to get series episodes")
  ELSE ScanSeason(now, IF info.season = <<>> THEN <<>> ELSE <<info.season[1]>>,
                  1, "unbound")

\* Alert._get_episode_release_date, up to the insert it decides on
EpisodeDecision(now, info) ==
  IF info.fault THEN NoInsert(UnexpectedError)
  ELSE IF ~info.map THEN NoInsert("Unable to get series episodes")
  ELSE ScanSeason(now, info.season, 1, "unbound")

\* Alert.enable, up to the insert it decides on: mainOk is get_movie's
\* success, seasons is read from the title
EnableDecision(now, t, mainOk, info) ==
  IF ~mainOk THEN NoInsert(UnexpectedError)
  ELSE IF t \in SeriesTitles THEN EpisodeDecision(now, info)
  ELSE MovieDecision(now, info)

\* Alert.enable's write and status
Enable(s, u, t, dec, dbOk) ==
  IF dec.insert
  THEN [store |-> DbInsert(s, Record(u, t, dec.episode, dec.release), dbOk),
        status |-> InsertStatus(dbOk)]
  ELSE [store |-> s, status |-> dec.status]

\* the days a reply fetched by enable on day d may spell
EnableDates(d) == {x \in {d - 1, d, d + 1} : x >= 0}

Seqs1(S) == {<<a>> : a \in S}

Seqs2(S) == {<<a, b>> : a \in S, b \in S}

RECURSIVE SeqsUpTo(_, _)
SeqsUpTo(S, n) ==
  IF n = 0 THEN {<<>>}
  ELSE LET shorter == SeqsUpTo(S, n - 1)
       IN  shorter \cup {Append(q, a) : q \in {x \in shorter : Len(x) = n - 1}, a \in S}

\* get_movie_release_info(title_id) on day d
ReleaseReplies(d) ==
  LET entries == {Entry(c, n, f) : c \in {"USA", "UK"}, n \in BOOLEAN,
                                   f \in Fragments({d, d + 1})}
  IN  {ReleaseFault} \cup
      {ReleaseInfo(l) : l \in {<<>>} \cup Seqs1(entries) \cup Seqs2(entries)}

\* get_movie_episodes(title_id) on day d
SeasonReplies(d) ==
  {SeasonFault, SeasonInfo(FALSE, <<>>)} \cup
  {SeasonInfo(TRUE, q) : q \in SeqsUpTo(Fragments(EnableDates(d)), MaxEpisode)}

InfoReplies(t, d) ==
  IF t \in SeriesTitles THEN SeasonReplies(d) ELSE ReleaseReplies(d)

\* what enable can decide for title t at moment [d, tod], over every reply
EnableDecisions ==
  [d \in 0..MaxDay, tod \in {0, 1}, t \in Titles |->
     {EnableDecision(Now(d, tod), t, ok, info) :
        ok \in BOOLEAN, info \in InfoReplies(t, d)}]

\* ------------------------------------------------ the engine: daily tick
\* the value Alert._update_episode returns: tag "none" (None), "id" (an
\* episode id) or "error" (the decorator's string, after a fault inside)
Returned(s, tag, e) == [store |-> s, tag |-> tag, id |-> e]

\* Alert._update_episode(user_id, title_id, current_episode_data) on day d:
\* e is the current episode's id, cur its data, nxt get_episode's reply for
\* the next episode
UpdateEpisode(s, d, u, t, e, cur, nxt, dbOk) ==
  IF cur.next # NoEpisode
  THEN IF nxt.fault THEN Returned(s, "error", NoEpisode)
       ELSE IF Present(nxt.air) /\ MatchEpisodeRegex(nxt.air)
            THEN LET p == StrptimeAbbrev(StripComma(nxt.air)) IN
                 IF ~p.ok THEN Returned(s, "error", NoEpisode)
                 ELSE Returned(DbUpdate(s, cur.next, p.date, u, t, dbOk),
                               "id", cur.next)
            ELSE Returned(DbUpdate(s, e, d + RecheckDays, u, t, dbOk), "id", e)
  ELSE Returned(DbDelete(s, u, t, dbOk), "none", NoEpisode)

\* one pass of notify's loop: abort is an exception leaving notify
Processed(s, al) == [store |-> s, alerts |-> al, abort |-> FALSE]

Aborted(s, al) == [store |-> s, alerts |-> al, abort |-> TRUE]

\* a variant of the loop body that emits 'Episode is out' when the record's
\* new release date, not the current episode's air date, equals today
ProcessRowNewDate(s, al, tdy, d, row, cur, nxt, dbOk) ==
  LET u == row[1]
      t == row[2]
      e == row[3]
  IN  IF e # NoEpisode
      THEN IF cur.fault THEN Aborted(s, al)
           ELSE LET rel == CurrentRelease(cur.air) IN
                IF ~rel.ok THEN Aborted(s, al)
                ELSE LET r == UpdateEpisode(s, d, u, t, e, cur, nxt, dbOk) IN
                     IF r.tag = "none"
                     THEN Processed(r.store, Append(al, Alert(u, "Finale", t, e)))
                     ELSE IF \E i \in DOMAIN r.store :
                               Matches(r.store[i], u, t) /\ r.store[i].release = tdy
                          THEN Processed(r.store,
                                         Append(al, Alert(u, "EpisodeOut", t, e)))
                          ELSE Processed(r.store, al)
      ELSE IF cur.fault THEN Aborted(s, al)
           ELSE Processed(DbDelete(s, u, t, dbOk),
                          Append(al, Alert(u, "MovieOut", t, NoEpisode)))

\* the body of notify's loop for one row, on day d with today = tdy
ProcessRow(s, al, tdy, d, row, cur, nxt, dbOk) ==
  LET u == row[1]
      t == row[2]
      e == row[3]
  IN  IF e # NoEpisode
      THEN IF cur.fault THEN Aborted(s, al)
           ELSE LET rel == CurrentRelease(cur.air) IN
                IF ~rel.ok THEN Aborted(s, al)
                ELSE LET r == UpdateEpisode(s, d, u, t, e, cur, nxt, dbOk) IN
                     IF r.tag = "none"
                     THEN Processed(r.store, Append(al, Alert(u, "Finale", t, e)))
                     ELSE IF rel.date = tdy
                          THEN Processed(r.store,
                                         Append(al, Alert(u, "EpisodeOut", t, e)))
                          ELSE Processed(r.store, al)
      ELSE IF cur.fault THEN Aborted(s, al)
           ELSE Processed(DbDelete(s, u, t, dbOk),
                          Append(al, Alert(u, "MovieOut", t, NoEpisode)))

\* a gateway call or a store write of the pass faulted
TransientFault(row, cur, nxt, dbOk) ==
  \/ cur.fault
  \/ row[3] # NoEpisode /\ CurrentRelease(cur.air).ok /\ cur.next # NoEpisode /\ nxt.fault
  \/ ~dbOk

Range(q) == {q[i] : i \in DOMAIN q}

\* the rows a returned list announces
Announced(al) == {AlertRow(a) : a \in Range(al)}

\* ----------------------------------------------------------------- Init
\* The table outlives the process (CREATE TABLE IF NOT EXISTS): the run
\* starts on day 0, before the job's time, with an empty table, with one
\* alert that an earlier run stored for the other user, or with the two
\* alerts of one series that the other user enabled twice: first while the
\* provider listed no 'seasons' for it (enable took the movie path and
\* stored its USA release date), then again once the episodes were listed.
InitialStores ==
  {<<>>} \cup
  {<<Record(u, t, NoEpisode, d)>> : u \in Users \ Callers, t \in MovieTitles, d \in {0, 1}} \cup
  {<<Record(u, t, 1, d)>> : u \in Users \ Callers, t \in SeriesTitles, d \in {0, 1}} \cup
  {<<Record(u, t, NoEpisode, 1), Record(u, t, 1, 0)>> :
     u \in Users \ Callers, t \in SeriesTitles}

Init ==
  /\ store \in InitialStores
  /\ day = 0
  /\ ticked = FALSE
  /\ chosen = [u \in Users |-> NoTitle]
  /\ pc = "idle"
  /\ today = 0
  /\ rows = <<>>
  /\ alerts = <<>>
  /\ results = <<>>
  /\ failed = FALSE
  /\ button = [u \in Callers |-> NoResult]
  /\ announced = {}
  /\ pending = {}

job == <<pc, today, rows, alerts, results, failed>>

\* ------------------------------------------------------------- handlers
\* The handlers run on worker threads beside the job.  They are interleaved
\* with notify's loop; notify_users' sends read and write neither the table
\* nor user_data, so a handler during them acts as one right after them.
\* chosen_result: context.user_data[user_id] = title_id
ChosenResult(u, t) ==
  /\ pc \in {"idle", "loop"}
  /\ chosen' = [chosen EXCEPT ![u] = t]
  /\ UNCHANGED <<store, day, ticked, job, button, announced, pending>>

\* enable_alert -> Alert.enable with the decision dec and the insert's
\* outcome dbOk; without a chosen title the handler dies on the lookup
EnableAlertWith(u, dec, dbOk) ==
  /\ pc \in {"idle", "loop"}
  /\ chosen[u] # NoTitle
  /\ Len(store) < MaxRows
  /\ store' = Enable(store, u, chosen[u], dec, dbOk).store
  /\ button' = [button EXCEPT ![u] = Enable(store, u, chosen[u], dec, dbOk).status]
  /\ UNCHANGED <<day, ticked, chosen, job, announced, pending>>

\* the moments of the day at which this run's presses arrive: after
\* midnight (the instant of midnight itself, tod 0, is left out)
EnableMoments == {1}

EnableAlert ==
  \E u \in Callers : \E tod \in EnableMoments :
    \E dec \in EnableDecisions[day, tod, IF chosen[u] = NoTitle THEN "tm" ELSE chosen[u]] :
      \E dbOk \in BOOLEAN : EnableAlertWith(u, dec, dbOk)

\* a variant of disable_alert over a store that faults when no row matches
DisableAlertStrict(u, dbOk) ==
  /\ pc \in {"idle", "loop"}
  /\ chosen[u] # NoTitle
  /\ store' = DbDelete(store, u, chosen[u], dbOk)
  /\ button' = [button EXCEPT ![u] =
                  DeleteStatus(dbOk /\ CountKey(store, u, chosen[u]) > 0)]
  /\ pending' = IF dbOk THEN {r \in pending : ~Matches(r, u, chosen[u])} ELSE pending
  /\ UNCHANGED <<day, ticked, chosen, job, announced>>

\* disable_alert -> Alert.disable
DisableAlertWith(u, dbOk) ==
  /\ pc \in {"idle", "loop"}
  /\ chosen[u] # NoTitle
  /\ store' = DbDelete(store, u, chosen[u], dbOk)
  /\ button' = [button EXCEPT ![u] = DeleteStatus(dbOk)]
  /\ pending' = IF dbOk THEN {r \in pending : ~Matches(r, u, chosen[u])} ELSE pending
  /\ UNCHANGED <<day, ticked, chosen, job, announced>>

DisableAlert == \E u \in Callers : \E dbOk \in BOOLEAN : DisableAlertWith(u, dbOk)

\* ---------------------------------------------------------- the daily job
\* midnight passes; the job runs once a day
AdvanceDay ==
  /\ pc = "idle"
  /\ ticked
  /\ day < MaxDay
  /\ day' = day + 1
  /\ ticked' = FALSE
  /\ UNCHANGED <<store, chosen, job, button, announced, pending>>

\* notify_users calls notify: today and the due rows.  A faulted query
\* returns the error string, which is no list: the loop is skipped.
NotifyStartWith(qOk) ==
  /\ pc = "idle"
  /\ ~ticked
  /\ ticked' = TRUE
  /\ pc' = "loop"
  /\ today' = day
  /\ rows' = IF qOk THEN QueryReleased(store, day) ELSE <<>>
  /\ pending' = IF qOk THEN pending
                ELSE pending \cup {r \in Range(store) : DueOn(r, day)}
  /\ UNCHANGED <<store, day, chosen, alerts, results, failed, button, announced>>

NotifyStart == \E qOk \in BOOLEAN : NotifyStartWith(qOk)

\* one pass of the loop over rows.  An exception leaves notify through its
\* decorator: the error string is returned, the rows after this one were
\* never looked at, and the local alerts are not returned.
NotifyRowWith(cur, nxt, dbOk) ==
  /\ pc = "loop"
  /\ rows # <<>>
  /\ LET row == Head(rows)
         out == ProcessRow(store, alerts, today, day, row, cur, nxt, dbOk)
         mine == {r \in Range(store) : Matches(r, row[1], row[2])}
     IN  /\ store' = out.store
         /\ alerts' = out.alerts
         /\ rows' = Tail(rows)
         /\ pc' = IF out.abort THEN "send" ELSE pc
         /\ failed' = out.abort
         /\ pending' = IF TransientFault(row, cur, nxt, dbOk)
                       THEN pending \cup {r \in mine : RowOf(r) = row /\ DueOn(r, today)}
                       ELSE IF out.abort THEN pending
                       ELSE {r \in pending : ~Matches(r, row[1], row[2])}
  /\ UNCHANGED <<day, ticked, chosen, today, results, button, announced>>

NotifyRow ==
  /\ pc = "loop"
  /\ rows # <<>>
  /\ LET e == Head(rows)[3] IN
     IF e = NoEpisode
     THEN \E cur \in MovieReplies : \E dbOk \in BOOLEAN :
            NotifyRowWith(cur, GatewayFault, dbOk)
     ELSE \E cur \in EpisodeReplies(e, day) :
            IF cur.fault \/ ~CurrentRelease(cur.air).ok
            THEN NotifyRowWith(cur, GatewayFault, TRUE)
            ELSE IF cur.next = NoEpisode
            THEN \E dbOk \in BOOLEAN : NotifyRowWith(cur, GatewayFault, dbOk)
            ELSE \E nxt \in EpisodeReplies(cur.next, day) : \E dbOk \in BOOLEAN :
                   NotifyRowWith(cur, nxt, dbOk)

\* notify returns its list
NotifyReturn ==
  /\ pc = "loop"
  /\ rows = <<>>
  /\ pc' = "send"
  /\ results' = alerts
  /\ announced' = announced \cup Announced(alerts)
  /\ UNCHANGED <<store, day, ticked, chosen, today, rows, alerts, failed, button, pending>>

\* notify_users: send_message for the next result; an exception of
\* send_message leaves notify_users
SendMessageWith(ok) ==
  /\ pc = "send"
  /\ ~failed
  /\ results # <<>>
  /\ results' = Tail(results)
  /\ pc' = IF ok THEN pc ELSE "done"
  /\ UNCHANGED <<store, day, ticked, chosen, today, rows, alerts, failed,
                 button, announced, pending>>

SendMessage == \E ok \in BOOLEAN : SendMessageWith(ok)

\* notify_users over the error string: result[1] of a one-character string
\* raises IndexError
IterateError ==
  /\ pc = "send"
  /\ failed
  /\ pc' = "done"
  /\ UNCHANGED <<store, day, ticked, chosen, today, rows, alerts, results,
                 failed, button, announced, pending>>

\* the job ends: by return, or by the exception the job queue logs
JobEnd ==
  /\ \/ pc = "send" /\ ~failed /\ results = <<>>
     \/ pc = "done"
  /\ pc' = "idle"
  /\ today' = 0
  /\ rows' = <<>>
  /\ alerts' = <<>>
  /\ results' = <<>>
  /\ failed' = FALSE
  /\ UNCHANGED <<store, day, ticked, chosen, button, announced, pending>>

Next ==
  \/ \E u \in Callers, t \in Titles : ChosenResult(u, t)
  \/ EnableAlert
  \/ DisableAlert
  \/ AdvanceDay
  \/ NotifyStart
  \/ NotifyRow
  \/ NotifyReturn
  \/ SendMessage
  \/ IterateError
  \/ JobEnd

Spec == Init /\ [][Next]_vars

\* ------------------------------------------- the handlers at any moment
\* The presses of a day before the job's time, with datetime.now() at any
\* moment of the day, the instant of midnight included.
Moments == {0, 1}

\* enable_alert at any moment
EnableAlertAt ==
  \E u \in Callers : \E tod \in Moments :
    \E dec \in EnableDecisions[day, tod, IF chosen[u] = NoTitle THEN "tm" ELSE chosen[u]] :
      \E dbOk \in BOOLEAN : EnableAlertWith(u, dec, dbOk)

HandlersNext ==
  \/ \E u \in Callers, t \in Titles : ChosenResult(u, t)
  \/ EnableAlertAt
  \/ DisableAlert

HandlersSpec == Init /\ [][HandlersNext]_vars

\* ---------------------------------------------------------------- claims

\* C1: in every reachable state the table holds at most one record for each
\* (user_id, title_id) pair; a subscribe to a pair that already has a record
\* adds no second one.
C1_UniquePair ==
  \A u \in Users, t \in Titles : CountKey(store, u, t) <= 1

\* --- what the claims speak of
\* the table holds a record of the row's unit for the row's user
Tracked(s, row) == \E r \in Range(s) : RowOf(r) = row

\* a pass of notify's loop that ended without an exception
PassDone == pc = "loop" /\ rows # <<>> /\ rows' = Tail(rows) /\ ~failed'

\* notify hands its result to notify_users: its list, or the error string
Returns == pc = "loop" /\ pc' = "send"

\* the air date strictly parses where _update_episode reads it
NextDateValid(f) ==
  Present(f) /\ MatchEpisodeRegex(f) /\ StrptimeAbbrev(StripComma(f)).ok

\* get_episode's replies for a current episode that notify can read on
CurrentReadable(e, d) ==
  {c \in EpisodeReplies(e, d) : ~c.fault /\ CurrentRelease(c.air).ok}

Count(q, x) == Cardinality({i \in DOMAIN q : q[i] = x})

\* C2: across the ticks notify returns at most one notification per
\* recipient for the same unit (a movie, or one episode): a returned list
\* names no row twice and no row that an earlier list named.
C2_AnnouncedOnce ==
  [][(Returns /\ ~failed') =>
       \A i \in DOMAIN results' :
         /\ AlertRow(results'[i]) \notin announced
         /\ \A j \in DOMAIN results' :
              AlertRow(results'[j]) = AlertRow(results'[i]) => j = i]_vars

\* C3: no notification is lost: a pass whose calls succeed and that stops
\* tracking a unit (deletes its record, or advances it to a successor) has a
\* notification for that unit in the tick's list, or an earlier tick
\* returned one, whatever air date the provider reports.
C3_NoLostNotification ==
  [][(PassDone /\ Tracked(store, Head(rows)) /\ ~Tracked(store', Head(rows))) =>
       Head(rows) \in announced \cup Announced(alerts')]_vars

\* the pass of notify's loop over a movie row / an episode row
MoviePass == pc = "loop" /\ rows # <<>> /\ rows' = Tail(rows) /\ Head(rows)[3] = NoEpisode

EpisodePass == pc = "loop" /\ rows # <<>> /\ rows' = Tail(rows) /\ Head(rows)[3] # NoEpisode

\* the replies of a pass over episode e on day d, as pairs <<current
\* episode's reply, next episode's reply>>: the current episode is read and
\* links to a next one whose air date is valid and after day d
AdvancingReplies ==
  [e \in Episodes, d \in 0..MaxDay |->
     UNION {{<<c, x>> : x \in {y \in EpisodeReplies(c.next, d) :
                                 /\ ~y.fault
                                 /\ NextDateValid(y.air)
                                 /\ StripComma(y.air).date > d}} :
            c \in {b \in CurrentReadable(e, d) : b.next # NoEpisode}}]

\* ... links to a next one that has no valid air date
UndatedReplies ==
  [e \in Episodes, d \in 0..MaxDay |->
     UNION {{<<c, x>> : x \in {y \in EpisodeReplies(c.next, d) :
                                 ~y.fault /\ ~NextDateValid(y.air)}} :
            c \in {b \in CurrentReadable(e, d) : b.next # NoEpisode}}]

\* ... has no next-episode link
FinaleReplies ==
  [e \in Episodes, d \in 0..MaxDay |->
     {c \in CurrentReadable(e, d) : c.next = NoEpisode}]

\* C4: given a due movie record, notify deletes it and returns exactly one
\* notification, the 'Movie is out' one for the record's user: the pass over
\* the row (its fetch and its delete succeeding) removes the record and adds
\* that notification, and the notification is in what notify returns.
C4_DueMovie ==
  [][/\ MoviePass =>
          \A cur \in MovieReplies :
            (~cur.fault /\ NotifyRowWith(cur, GatewayFault, TRUE)) =>
              /\ CountKey(store', Head(rows)[1], Head(rows)[2]) = 0
              /\ alerts' = Append(alerts, Alert(Head(rows)[1], "MovieOut",
                                                Head(rows)[2], NoEpisode))
     /\ Returns =>
          \A a \in Range(alerts) :
            a.kind = "MovieOut" => Count(results', a) = Count(alerts, a)]_vars

\* C5 as the spec states it: given a due episode record whose next episode
\* has a valid future air date, the pass updates the record in place and
\* emits no notification unless the new release date equals today.
C5_QuietUnlessNewDateToday ==
  [][EpisodePass =>
       \A rp \in AdvancingReplies[Head(rows)[3], day] :
         NotifyRowWith(rp[1], rp[2], TRUE) =>
           /\ Len(store') = Len(store)
           /\ StripComma(rp[2].air).date # today => alerts' = alerts]_vars

\* C5, amended: given a due episode record whose current episode is read and
\* whose next episode has a valid future air date, the pass (its update
\* succeeding) rewrites every record of the row's user and title to the next
\* episode's id and date, deletes and changes nothing else, and emits the
\* 'Episode is out' notification of the current episode exactly when the
\* current episode's re-fetched air date equals today.
C5_AdvanceInPlace ==
  [][EpisodePass =>
       \A rp \in AdvancingReplies[Head(rows)[3], day] :
           NotifyRowWith(rp[1], rp[2], TRUE) =>
             LET u == Head(rows)[1]
                 t == Head(rows)[2]
                 e == Head(rows)[3]
                 cur == rp[1]
                 nxt == rp[2]
             IN  /\ Len(store') = Len(store)
                 /\ \A i \in DOMAIN store :
                      IF store[i].user = u /\ store[i].title = t
                      THEN store'[i] = [user |-> u, title |-> t,
                                        episode |-> cur.next,
                                        release |-> StripComma(nxt.air).date]
                      ELSE store'[i] = store[i]
                 /\ alerts' = IF CurrentRelease(cur.air).date = today
                              THEN Append(alerts, Alert(u, "EpisodeOut", t, e))
                              ELSE alerts]_vars

\* C5's case: in a tick the current episode was announced and its record
\* now tracks the next episode at a later day
C5_Witness ==
  /\ pc = "loop"
  /\ \E a \in Range(alerts) : \E r \in Range(store) :
       /\ a.kind = "EpisodeOut"
       /\ r.user = a.user /\ r.title = a.title
       /\ r.episode = a.episode + 1
       /\ r.release > today

\* C6: given a due episode record whose current episode has no next-episode
\* link, notify deletes the record and returns exactly one notification for
\* it, the 'Series finale' one for the record's user: the pass over the row
\* (its fetch and its delete succeeding) removes the record and adds that
\* notification, and the notification is in what notify returns.
C6_Finale ==
  [][/\ EpisodePass =>
          \A cur \in FinaleReplies[Head(rows)[3], day] :
            NotifyRowWith(cur, GatewayFault, TRUE) =>
              /\ CountKey(store', Head(rows)[1], Head(rows)[2]) = 0
              /\ alerts' = Append(alerts, Alert(Head(rows)[1], "Finale",
                                                Head(rows)[2], Head(rows)[3]))
     /\ Returns =>
          \A a \in Range(alerts) :
            a.kind = "Finale" => Count(results', a) = Count(alerts, a)]_vars

\* C7: given a due episode record whose next-episode link is present and
\* whose next episode has a missing or invalid air date, the pass keeps the
\* record, leaves its episode id the current episode's and sets its release
\* date to today + 7 days, so that it is due again on that day.
C7_RecheckInAWeek ==
  [][EpisodePass =>
       \A rp \in UndatedReplies[Head(rows)[3], day] :
           NotifyRowWith(rp[1], rp[2], TRUE) =>
             /\ Len(store') = Len(store)
             /\ \A i \in DOMAIN store :
                  Matches(store[i], Head(rows)[1], Head(rows)[2]) =>
                    /\ store'[i].episode = Head(rows)[3]
                    /\ store'[i].release = today + RecheckDays
                    /\ RowOf(store'[i]) \in
                         Range(QueryReleased(store', today + RecheckDays))]_vars

\* C8: a fault on one due record does not keep notify from the other due
\* records, and the notifications of the records it processed are in the
\* list it returns.
C8_FaultIsolation ==
  [][Returns => (rows' = <<>> /\ results' = alerts)]_vars

\* C9: every (recipient, message) pair of the list notify returned is
\* attempted, also after a delivery failure for one recipient.
C9_EveryPairAttempted ==
  (pc = "done" /\ ~failed) => results = <<>>

\* C10: a due record whose processing faulted transiently is kept and is
\* processed again by a later tick: the next tick whose query succeeds has
\* it among its rows.
C10_RetriedLater ==
  [][NotifyStartWith(TRUE) =>
       \A r \in pending : r \in Range(store) => RowOf(r) \in Range(rows')]_vars

\* C11: a tick processes every stored record whose release date has arrived
\* (is today or earlier): the rows of a tick whose query succeeds hold the
\* row of every such record, also of one whose due day has passed.
C11_ArrivedAreProcessed ==
  [][NotifyStartWith(TRUE) =>
       \A r \in Range(store) : r.release <= day => RowOf(r) \in Range(rows')]_vars

\* C12: every release date a tick writes into a record by update is strictly
\* later than the tick's day: a pass that ends without an exception leaves no
\* record it changed with a release date on or before today.
C12_WrittenDateIsFuture ==
  [][(EpisodePass /\ ~failed' /\ Len(store') = Len(store)) =>
       \A i \in DOMAIN store :
         store'[i] # store[i] => store'[i].release > today]_vars

\* C13: for any prior table (no record, one record or several records of
\* the key), after disable(user_id, title_id) completes without a storage
\* fault the point lookup for (user_id, title_id) returns no record.
C13_DisabledIsAbsent ==
  [][\A u \in Callers :
       DisableAlertWith(u, TRUE) => QueryUserAlert(store', u, chosen[u]) = <<>>]_vars

\* C13's case: disable ran for a key the running tick had read as due, and
\* the table holds no record of the key
C13_Witness ==
  /\ pc = "loop"
  /\ \E u \in Callers :
       /\ button[u] = AlertDisabled
       /\ \E i \in DOMAIN rows : rows[i][1] = u /\ rows[i][2] = chosen[u]
       /\ QueryUserAlert(store, u, chosen[u]) = <<>>

\* C14: disable is idempotent: a second disable of the same key, applied to
\* what the first call left, and a disable of a key that has no record,
\* produce no fault, return the same status 'Alert disabled.' and leave the
\* table as it was.
C14_DisableIdempotent ==
  [][\A u \in Callers :
       DisableAlertWith(u, TRUE) =>
         /\ button'[u] = AlertDisabled
         /\ Delete(store', u, chosen[u]) = store'
         /\ DeleteStatus(TRUE) = button'[u]
         /\ CountKey(store, u, chosen[u]) = 0 => store' = store]_vars

\* C14's case: disable has run for a key that has no record while the table
\* holds another record: a further disable of the key meets this state
C14_Witness ==
  /\ pc = "idle"
  /\ store # <<>>
  /\ \E u \in Callers :
       /\ button[u] = AlertDisabled
       /\ chosen[u] # NoTitle
       /\ CountKey(store, u, chosen[u]) = 0

\* C15: a record written by insert with release date d1 and then advanced by
\* update to a release date d2 # d1 is returned by the due-record query for
\* d2 and not for d1: after a pass of the tick that changed a record's
\* release date, the query for the new date holds the record's row and the
\* query for the old date holds no row of the record's key.
C15_DueOnNewDateOnly ==
  [][(EpisodePass /\ ~failed' /\ Len(store') = Len(store)) =>
       \A i \in DOMAIN store :
         store'[i].release # store[i].release =>
           /\ RowOf(store'[i]) \in Range(QueryReleased(store', store'[i].release))
           /\ \A row \in Range(QueryReleased(store', store[i].release)) :
                ~(row[1] = store[i].user /\ row[2] = store[i].title)]_vars

\* C15's case: a tick has moved a record to the re-check date, and the
\* due-record query for that date returns its row
C15_Witness ==
  /\ pc = "loop"
  /\ \E r \in Range(store) :
       /\ r.release = today + RecheckDays
       /\ RowOf(r) \in Range(QueryReleased(store, today + RecheckDays))
       /\ RowOf(r) \notin Range(QueryReleased(store, today))

\* --- the subscribe path's inputs the claims speak of
\* a date the movie path strictly parses
MovieDateValid(f) == Present(f) /\ MatchMovieRegex(f) /\ StrptimeFull(f).ok

\* a date the series scan strictly parses
SeasonDateValid(f) ==
  Present(f) /\ MatchEpisodeRegex(f) /\ StrptimeAbbrev(StripDot(f)).ok

\* the entries of a release list that are for the USA, carry no notes and a
\* valid date after day d
FutureUsa(list, d) ==
  {k \in DOMAIN list :
     /\ list[k].country = "USA" /\ ~list[k].notes
     /\ MovieDateValid(list[k].date) /\ list[k].date.date > d}

\* for day d and movie t: <<date, what enable decides>> over every release
\* list that has such an entry, date being the entry's
FutureMovieDecisions ==
  [d \in 0..MaxDay, t \in MovieTitles |->
     {<<info.list[CHOOSE k \in FutureUsa(info.list, d) : TRUE].date.date,
        EnableDecision(Now(d, tod), t, TRUE, info)>> :
        tod \in EnableMoments,
        info \in {i \in ReleaseReplies(d) : ~i.fault /\ FutureUsa(i.list, d) # {}}}]

\* the episodes of a season dated after day d
FutureEpisodes(season, d) ==
  {k \in DOMAIN season : SeasonDateValid(season[k]) /\ season[k].date > d}

\* for day d and series t: <<episode, date, what enable decides>> over every
\* season whose episodes are validly dated, all before the moment of the
\* call but one, which is dated after day d
OneFutureDecisions ==
  [d \in 0..MaxDay, t \in SeriesTitles |->
     {<<CHOOSE k \in FutureEpisodes(info.season, d) : TRUE,
        info.season[CHOOSE k \in FutureEpisodes(info.season, d) : TRUE].date,
        EnableDecision(Now(d, tod), t, TRUE, info)>> :
        tod \in EnableMoments,
        info \in {i \in SeasonReplies(d) :
                    /\ ~i.fault /\ i.map
                    /\ Cardinality(FutureEpisodes(i.season, d)) = 1
                    /\ \A k \in DOMAIN i.season :
                         /\ SeasonDateValid(i.season[k])
                         /\ k \notin FutureEpisodes(i.season, d) =>
                              i.season[k].date <= d}}]

\* the first episode of the season that the scan cannot pass: its air date
\* is missing or fails the pattern (0 when there is none before the scan ends)
FirstUnusable(season, now) ==
  LET bad == {k \in DOMAIN season :
                /\ ~(Present(season[k]) /\ MatchEpisodeRegex(season[k]))
                /\ \A j \in 1..(k - 1) :
                     /\ SeasonDateValid(season[j])
                     /\ Before(season[j].date, now)
                     /\ j # Len(season)}
  IN  IF bad = {} THEN 0 ELSE CHOOSE k \in bad : TRUE

\* for day d and series t: what enable decides over every season in which
\* the scan reaches an episode whose air date is missing or fails the pattern
UnusableDecisions ==
  [d \in 0..MaxDay, t \in SeriesTitles |->
     {EnableDecision(Now(d, tod), t, TRUE, info) :
        tod \in EnableMoments,
        info \in {i \in SeasonReplies(d) :
                    ~i.fault /\ i.map /\ FirstUnusable(i.season, Now(d, 1)) # 0}}]

\* for day d and title t: what enable decides over every reply the gateway
\* gives without fault: a release list of any fragments, the episode map
\* absent, or a season of one or more episodes of any fragments
FragmentDecisions ==
  [d \in 0..MaxDay, t \in Titles |->
     {EnableDecision(Now(d, tod), t, TRUE, info) :
        tod \in EnableMoments,
        info \in {i \in InfoReplies(t, d) :
                    /\ ~i.fault
                    /\ t \in SeriesTitles => (~i.map \/ i.season # <<>>)}}]

\* C16: for every movie whose release-date list has a USA entry without
\* notes that carries a valid date strictly in the future, enable (its calls
\* succeeding) adds exactly one record, with no episode id and the parsed
\* date as release date, and changes no other record.
C16_FutureMovieIsStored ==
  [][\A u \in Callers :
       chosen[u] \in MovieTitles =>
         \A x \in FutureMovieDecisions[day, chosen[u]] :
           EnableAlertWith(u, x[2], TRUE) =>
             store' = Append(store, Record(u, chosen[u], NoEpisode, x[1]))]_vars

\* C17: for every series whose current season has all episodes dated in the
\* past except exactly one episode dated in the future, at any position,
\* enable (its calls succeeding) writes exactly one record, whose episode id
\* and release date are those of the future episode.
C17_OneFutureEpisode ==
  [][\A u \in Callers :
       chosen[u] \in SeriesTitles =>
         \A x \in OneFutureDecisions[day, chosen[u]] :
           EnableAlertWith(u, x[3], TRUE) =>
             /\ store' = Append(store, Record(u, chosen[u], x[1], x[2]))
             /\ button'[u] = AlertEnabled]_vars

\* C17's case: enable has stored the second episode of a season, the one
\* after a past episode
C17_Witness ==
  \E u \in Callers :
    /\ button[u] = AlertEnabled
    /\ chosen[u] \in SeriesTitles
    /\ \E r \in Range(store) :
         /\ Matches(r, u, chosen[u])
         /\ r.episode = 2
         /\ r.release = day + 1

\* C18: under any interleaving of disable(u, t) with a tick that has read
\* the record of (u, t) as due, once both have completed and no enable(u, t)
\* ran, no record of (u, t) exists: disable leaves the key without a record,
\* and a key without a record gets one only by an enable of that key, never
\* by the tick's write-back.
C18_NoGhostRecord ==
  [][/\ \A u \in Callers :
          DisableAlertWith(u, TRUE) => CountKey(store', u, chosen[u]) = 0
     /\ \A u \in Users, t \in Titles :
          (CountKey(store, u, t) = 0 /\ CountKey(store', u, t) > 0) =>
            /\ u \in Callers /\ chosen[u] = t
            /\ button'[u] = AlertEnabled
            /\ job' = job]_vars

\* C18's case: in one tick the pass over an episode row of the key has
\* written back (it went through _update_episode and announced the episode)
\* and disable has run for the key; the key has no record
C18_Witness ==
  /\ pc = "loop"
  /\ \E u \in Callers :
       /\ button[u] = AlertDisabled
       /\ CountKey(store, u, chosen[u]) = 0
       /\ \E a \in Range(alerts) :
            a.user = u /\ a.title = chosen[u] /\ a.kind = "EpisodeOut"

\* C19: the subscribe-path series scan halts at the first episode of the
\* current season whose air date is missing or fails validation: enable then
\* returns 'Unable to get episode release date' and writes no record, also
\* when a later episode of the season has a valid future air date.
C19_ScanHalts ==
  [][\A u \in Callers :
       chosen[u] \in SeriesTitles =>
         \A dec \in UnusableDecisions[day, chosen[u]] :
           EnableAlertWith(u, dec, TRUE) =>
             /\ store' = store
             /\ button'[u] = "Unable to get episode release date"]_vars

\* C20: for every date fragment the provider can return on the subscribe
\* path (missing, non-matching, matching and strictly parseable, matching
\* and not strictly parseable) enable ends with a stored date or a
\* descriptive not-found status, never with 'Unexpected error occured.'.
C20_NoParseFault ==
  [][\A u \in Callers :
       chosen[u] # NoTitle =>
         \A dec \in FragmentDecisions[day, chosen[u]] :
           EnableAlertWith(u, dec, TRUE) => button'[u] # UnexpectedError]_vars

\* every USA entry without notes of the list is validly dated and none is
\* after the moment now: the movie is released
MovieReleased(list, now) ==
  /\ UsaDates(list) # <<>>
  /\ \A k \in DOMAIN UsaDates(list) :
       /\ MovieDateValid(UsaDates(list)[k])
       /\ ~After(UsaDates(list)[k].date, now)

\* every episode of the season is validly dated before the moment now
SeasonReleased(season, now) ==
  /\ season # <<>>
  /\ \A k \in DOMAIN season :
       SeasonDateValid(season[k]) /\ Before(season[k].date, now)

\* for day d, moment tod and title t: what enable decides when the title
\* (every episode of the current season) is already released
ReleasedDecisions ==
  [d \in 0..MaxDay, tod \in Moments, t \in Titles |->
     {EnableDecision(Now(d, tod), t, TRUE, info) :
        info \in {i \in InfoReplies(t, d) :
                    /\ ~i.fault
                    /\ IF t \in SeriesTitles
                       THEN i.map /\ SeasonReleased(i.season, Now(d, tod))
                       ELSE MovieReleased(i.list, Now(d, tod))}}]

\* C21: every record enable inserts has a release date strictly later than
\* the day of the call, one call inserts at most one record, and enable
\* inserts nothing when the title (every episode of the current season) is
\* already released.
C21_InsertsFutureOnly ==
  [][/\ Len(store') <= Len(store) + 1
     /\ Len(store') > Len(store) => store'[Len(store')].release > day
     /\ \A u \in Callers :
          chosen[u] # NoTitle =>
            \A tod \in Moments : \A dec \in ReleasedDecisions[day, tod, chosen[u]] :
              \A dbOk \in BOOLEAN :
                EnableAlertWith(u, dec, dbOk) => store' = store]_vars

\* C22: enable returns 'Alert enabled.' if and only if the call inserted a
\* record: every call that writes no record (released, no date, no episodes,
\* gateway fault, storage fault) returns another status, and no call returns
\* 'Alert enabled.' without its record being stored.
C22_EnabledIffInserted ==
  [][\A u \in Callers :
       (job' = job /\ chosen[u] # NoTitle) =>
         \A tod \in Moments : \A dec \in EnableDecisions[day, tod, chosen[u]] :
           \A dbOk \in BOOLEAN :
             EnableAlertWith(u, dec, dbOk) =>
               IF button'[u] = AlertEnabled
               THEN store' = Append(store, Record(u, chosen[u],
                                                  dec.episode, dec.release))
               ELSE store' = store]_vars

\* C22's case: enable has returned 'Alert enabled.' for a movie and the
\* table holds the user's record of it
C22_Witness ==
  /\ pc = "idle"
  /\ \E u \in Callers :
       /\ button[u] = AlertEnabled
       /\ chosen[u] \in MovieTitles
       /\ CountKey(store, u, chosen[u]) = 1

\* the title the buttons of user u's messages act on: both handlers read it
\* from context.user_data[user_id], the callback data carries none
PressTarget(u) == chosen[u]

\* C23: under any ordering of a user's chosen-result and button-press events
\* a button acts on the title of the inline result it belongs to: once the
\* user has the message of a chosen result, the title its buttons act on
\* stays that result's, whatever the user chooses afterwards.
C23_ButtonKeepsItsTitle ==
  [][\A u \in Callers :
       PressTarget(u) # NoTitle => PressTarget(u)' = PressTarget(u)]_vars

\* C24: the kind of a record never changes: a record without episode id (a
\* movie's) is never given one and is only ever deleted, and a record with
\* an episode id never has it set to absent by an update.
C24_KindIsKept ==
  [][Len(store') = Len(store) =>
       \A i \in DOMAIN store :
         /\ store[i].episode = NoEpisode => store'[i] = store[i]
         /\ store[i].episode # NoEpisode => store'[i].episode # NoEpisode]_vars

\* C25: a tick changes only records that were due today: a pass of notify's
\* loop leaves every stored record whose release date differs from the
\* tick's day as it was, whatever other records the table holds.
C25_OnlyDueChange ==
  [][(pc = "loop" /\ rows # <<>> /\ rows' = Tail(rows)) =>
       \A r \in Range(store) :
         r.release # today => Count(store', r) = Count(store, r)]_vars

====
